---------------------------- MODULE Spec2Model ----------------------------
(***************************************************************************)
(* Model of the manifest generator of MLArtifactFS (package manifest):     *)
(* Generate (directory walk, filtering, hashing, URL derivation),          *)
(* normalizePrefetchPaths, and the JSON Marshal / Load pair.               *)
(*                                                                         *)
(* Go strings are modelled as sequences of one-character strings, so that  *)
(* prefixes, suffixes, path segments and double slashes are observable.    *)
(* A Go slice is either Nil or a sequence.                                 *)
(***************************************************************************)
EXTENDS Integers, Sequences, FiniteSets, TLC

VARIABLES
    fs,            \* the file system found at dir: [root |-> kind, entries |-> set of entries]
    Separator,     \* os.PathSeparator of the build: "/" or "\\"
    id,            \* Generate's parameter id
    version,       \* Generate's parameter version
    urlPrefix,     \* Generate's parameter urlPrefix, as the caller passed it
    prefetchPaths, \* Generate's parameter prefetchPaths
    pc,            \* position of the running Generate call
    canonPrefix,   \* the local urlPrefix after line 42
    manifest,      \* the *Manifest under construction (Nil before line 45)
    todo,          \* entries filepath.Walk has still to visit, next first
    walkErr,       \* the error filepath.Walk returned (NoErr while none)
    result,        \* what Generate returned: [manifest, err]
    prev,          \* the previous completed call: [urlPrefix, result]
    visited,       \* the entries the walk function returned nil for, in call order
    nIn,           \* normalizePrefetchPaths: the input slice
    nOut,          \* normalizePrefetchPaths: its result
    nOut2,         \* normalizePrefetchPaths applied to nOut
    nPc,           \* how many times normalizePrefetchPaths was applied
    jM,            \* Marshal / Load: the Manifest handed to Marshal
    jData,         \* the bytes Marshal produced
    jLoaded,       \* what Load's json.Unmarshal made of jData
    jPc            \* position in the Marshal / Load round trip

genVars == <<fs, Separator, id, version, urlPrefix, prefetchPaths, pc,
             canonPrefix, manifest, todo, walkErr, result, prev, visited>>
normVars == <<nIn, nOut, nOut2, nPc>>
jsonVars == <<jM, jData, jLoaded, jPc>>
vars == <<genVars, normVars, jsonVars>>

NoErr == "no error"

\* a Go slice: nil, or a (possibly empty) sequence of elements
NilSlice == [isNil |-> TRUE, elems |-> <<>>]
Slice(s) == [isNil |-> FALSE, elems |-> s]

-----------------------------------------------------------------------------
(* Strings *)

\* strings.HasPrefix
HasPrefix(s, p) == Len(s) >= Len(p) /\ SubSeq(s, 1, Len(p)) = p

\* strings.HasSuffix
HasSuffix(s, p) == Len(s) >= Len(p) /\ SubSeq(s, Len(s) - Len(p) + 1, Len(s)) = p

\* strings.TrimSuffix: removes one occurrence of suf at the end, if present
TrimSuffix(s, suf) ==
    IF HasSuffix(s, suf) THEN SubSeq(s, 1, Len(s) - Len(suf)) ELSE s

\* the characters unicode.IsSpace accepts, among those the model uses
WhiteSpace == {" ", "\t"}

RECURSIVE TrimLeft(_)
TrimLeft(s) ==
    IF s # <<>> /\ Head(s) \in WhiteSpace THEN TrimLeft(Tail(s)) ELSE s

RECURSIVE TrimRight(_)
TrimRight(s) ==
    IF s # <<>> /\ s[Len(s)] \in WhiteSpace
    THEN TrimRight(SubSeq(s, 1, Len(s) - 1))
    ELSE s

\* TrimSpace, modified: at most one white-space character is cut at each end
TrimSpaceOnce(s) ==
    LET l == IF s # <<>> /\ Head(s) \in WhiteSpace THEN Tail(s) ELSE s
    IN IF l # <<>> /\ l[Len(l)] \in WhiteSpace THEN SubSeq(l, 1, Len(l) - 1) ELSE l

\* strings.TrimSpace
TrimSpace(s) == TrimRight(TrimLeft(s))

\* filepath.ToSlash: every Separator becomes "/" (the identity where Separator is "/")
ToSlash(s) == [i \in 1..Len(s) |-> IF s[i] = Separator THEN "/" ELSE s[i]]

\* filepath.Join of path segments with the build's separator
RECURSIVE JoinSegs(_, _)
JoinSegs(segs, sep) ==
    IF segs = <<>> THEN <<>>
    ELSE IF Len(segs) = 1 THEN segs[1]
    ELSE segs[1] \o <<sep>> \o JoinSegs(Tail(segs), sep)


-----------------------------------------------------------------------------
(* normalizePrefetchPaths *)

\* the loop of normalizePrefetchPaths: paths still to read, normalized so far
RECURSIVE normalizeLoop(_, _)
normalizeLoop(paths, normalized) ==
    IF paths = <<>> THEN normalized
    ELSE LET p == TrimSpace(Head(paths)) IN
         IF p = <<>>
         THEN normalizeLoop(Tail(paths), normalized)
         ELSE normalizeLoop(Tail(paths), Append(normalized, ToSlash(p)))

\* normalizePrefetchPaths, modified: elements that are empty after trimming are kept
normalizeKeepEmpty(paths) ==
    Slice([i \in 1..Len(paths.elems) |-> ToSlash(TrimSpace(paths.elems[i]))])

\* make([]string, 0, len(paths)) is never nil; ranging over a nil slice reads nothing
normalizePrefetchPaths(paths) == Slice(normalizeLoop(paths.elems, <<>>))

-----------------------------------------------------------------------------
(* The file system under dir *)

\* byte order of the characters used in entry names (os.ReadDir sorts by name)
CharOrder == <<".", "a", "c", "d", "g", "h", "n", "p">>
Rank(c) == CHOOSE i \in 1..Len(CharOrder) : CharOrder[i] = c

RECURSIVE NameLess(_, _)
NameLess(a, b) ==
    IF a = <<>> THEN b # <<>>
    ELSE IF b = <<>> THEN FALSE
    ELSE IF Head(a) = Head(b) THEN NameLess(Tail(a), Tail(b))
    ELSE Rank(Head(a)) < Rank(Head(b))

RECURSIVE SortNames(_)
SortNames(S) ==
    IF S = {} THEN <<>>
    ELSE LET m == CHOOSE x \in S : \A y \in S \ {x} : NameLess(x, y)
         IN <<m>> \o SortNames(S \ {m})

Entry(path, kind, size, content) ==
    [path |-> path, kind |-> kind, size |-> size, content |-> content]

\* the directory trees the model draws dir from: a hidden entry ".g" (a file, or a
\* directory holding "c"), "a" (a regular file or a symbolic link), "d" (a
\* directory holding ".h" and "n", or a symbolic link to a directory) and "p"
\* (a device or named pipe: neither regular, nor a directory, nor a link)
TreeOf(g, a, d, p) ==
    (IF g = "absent" THEN {} ELSE {Entry(<< <<".", "g">> >>, g, 2, "x")})
    \cup (IF g = "dir" THEN {Entry(<< <<".", "g">>, <<"c">> >>, "file", 1, "y")} ELSE {})
    \cup (IF a = "absent" THEN {} ELSE {Entry(<< <<"a">> >>, a, 3, "x")})
    \cup (IF d = "absent" THEN {} ELSE {Entry(<< <<"d">> >>, d, 0, "")})
    \cup (IF d = "dir"
          THEN {Entry(<< <<"d">>, <<".", "h">> >>, "file", 1, "y"),
                Entry(<< <<"d">>, <<"n">> >>, "file", 4, "x")}
          ELSE {})
    \cup (IF p = "absent" THEN {} ELSE {Entry(<< <<"p">> >>, p, 0, "")})

Trees ==
    {TreeOf(g, a, d, p) : g \in {"absent", "file", "dir"}, a \in {"absent", "file", "symlink"},
                          d \in {"absent", "dir", "symlink"}, p \in {"absent", "other"}}

FileSystems ==
    {[root |-> "missing", entries |-> {}], [root |-> "file", entries |-> {}]}
    \cup {[root |-> "dir", entries |-> t] : t \in Trees}

\* os.Lstat of dir joined with path; the root itself is the empty path
Lstat(path) ==
    IF path = <<>> THEN Entry(<<>>, fs.root, 0, "")
    ELSE CHOOSE e \in fs.entries : e.path = path

\* info.Name(): the base name
Name(info) == IF info.path = <<>> THEN <<"r">> ELSE info.path[Len(info.path)]

\* the names in a directory, sorted, each joined to the directory's path
Children(path) ==
    LET names == {e.path[Len(e.path)] : e \in
                    {x \in fs.entries : Len(x.path) = Len(path) + 1
                                        /\ SubSeq(x.path, 1, Len(path)) = path}}
        sorted == SortNames(names)
    IN [i \in 1..Len(sorted) |-> Append(path, sorted[i])]

\* hashFile: the lowercase hex digest of the content, a function of the content alone
hashFile(info) == <<"s", "h", "a", "-">> \o <<info.content>>


-----------------------------------------------------------------------------
(* Manifest and File *)

MountPathDefault == <<"/", "m", "n", "t", "/", "m", "l", "m", "o", "d", "e", "l">>
CompressionNone == <<"n", "o", "n", "e">>

File(path, url, size, sha) ==
    [Path |-> path, URL |-> url, Size |-> size, SHA256 |-> sha,
     Compression |-> CompressionNone]

Manifest(artifactID, ver, mountPath, prefetch, files) ==
    [isNil |-> FALSE, ArtifactID |-> artifactID, Version |-> ver,
     MountPath |-> mountPath, Prefetch |-> prefetch, Files |-> files]

\* a nil *Manifest
NilManifest ==
    [isNil |-> TRUE, ArtifactID |-> <<>>, Version |-> <<>>, MountPath |-> <<>>,
     Prefetch |-> NilSlice, Files |-> NilSlice]

-----------------------------------------------------------------------------
(* Generate *)

SchemeHTTP == <<"h", "t", "t", "p", ":", "/", "/">>
SchemeHTTPS == <<"h", "t", "t", "p", "s", ":", "/", "/">>

\* the most trailing slashes a drawn urlPrefix ends in
MaxTrailingSlashes == 2

Slashes(k) == [i \in 1..k |-> "/"]

UrlPrefixes ==
    {SchemeHTTPS \o <<"b">> \o Slashes(k) : k \in 0..MaxTrailingSlashes}
    \cup {SchemeHTTP \o <<"b", "/", "p">>, SchemeHTTP \o <<"b", "/", "p", "/">>,
          SchemeHTTPS, <<"s", "3", ":", "/", "/", "b">>, <<>>}

Ids == {<<>>, <<"m">>}
Versions == {<<>>, <<"v", "1">>}
PrefetchInputs == {NilSlice, Slice(<< <<" ", "a", " ">>, <<" ">> >>)}

ErrRequired == "id and version are required"
ErrAccess == "cannot access directory"
ErrNotDir == "path is not a directory"
ErrUrlPrefix == "url-prefix must start with http:// or https://"
ErrHash == "failed to hash file"
ErrTraversal == "traversal error"

\* the error taxonomy: which kind of error each failure of Generate is
ErrorKind(err) ==
    CASE err \in {ErrRequired, ErrUrlPrefix} -> "ValidationError"
      [] err \in {ErrAccess, ErrNotDir, ErrTraversal} -> "FilesystemError"
      [] err = ErrHash -> "HashError"
      [] OTHER -> "none"

Failure(err) == [manifest |-> NilManifest, err |-> err]
NoResult == [manifest |-> NilManifest, err |-> "pending"]

\* the callback's filters: TRUE when the entry is skipped without a File
Skipped(info) ==
    \/ info.kind = "dir"
    \/ HasPrefix(Name(info), <<".">>)
    \/ info.kind = "symlink"

\* FileOf, modified: the URL is built from urlPrefix as the caller passed it
FileOfRawPrefix(info) ==
    LET relPath == ToSlash(JoinSegs(info.path, Separator))
    IN File(relPath, urlPrefix \o <<"/">> \o relPath, info.size, hashFile(info))

\* the File the callback appends for a retained entry
FileOf(info) ==
    LET relPath == ToSlash(JoinSegs(info.path, Separator))
    IN File(relPath, canonPrefix \o <<"/">> \o relPath, info.size, hashFile(info))

\* the order of Generate's checks, modified: the urlPrefix check moved before os.Stat
ValidateUrlBeforeStat(i, v, root, u) ==
    IF i = <<>> \/ v = <<>> THEN ErrRequired
    ELSE IF ~HasPrefix(u, SchemeHTTP) /\ ~HasPrefix(u, SchemeHTTPS) THEN ErrUrlPrefix
    ELSE IF root = "missing" THEN ErrAccess
    ELSE IF root # "dir" THEN ErrNotDir
    ELSE NoErr

\* Generate's checks, modified: the urlPrefix check left out
ValidateNoUrlCheck(i, v, root, u) ==
    IF i = <<>> \/ v = <<>> THEN ErrRequired
    ELSE IF root = "missing" THEN ErrAccess
    ELSE IF root # "dir" THEN ErrNotDir
    ELSE NoErr

\* Generate's checks in the order of the code: the first failing one decides the
\* error; NoErr when all pass. root is what os.Stat(dir) finds.
Validate(i, v, root, u) ==
    IF i = <<>> \/ v = <<>> THEN ErrRequired
    ELSE IF root = "missing" THEN ErrAccess
    ELSE IF root # "dir" THEN ErrNotDir
    ELSE IF ~HasPrefix(u, SchemeHTTP) /\ ~HasPrefix(u, SchemeHTTPS) THEN ErrUrlPrefix
    ELSE NoErr

\* Generate up to the call of filepath.Walk: validation, canonical prefix, manifest
GenerateStart ==
    /\ pc = "call"
    /\ LET err == Validate(id, version, fs.root, urlPrefix) IN
       IF err # NoErr
       THEN /\ result' = Failure(err)
            /\ pc' = "returned"
            /\ UNCHANGED <<canonPrefix, manifest, todo>>
       ELSE /\ canonPrefix' = TrimSuffix(urlPrefix, <<"/">>)
            /\ manifest' = Manifest(id, version, MountPathDefault,
                                    normalizePrefetchPaths(prefetchPaths), Slice(<<>>))
            /\ todo' = << <<>> >>
            /\ pc' = "walking"
            /\ UNCHANGED result
    /\ UNCHANGED <<fs, Separator, id, version, urlPrefix, prefetchPaths, walkErr, prev>>
    /\ UNCHANGED <<visited, normVars, jsonVars>>

\* WalkFn, modified: the new File is put in front of Files
WalkFnPrepend ==
    /\ pc = "walking"
    /\ todo # <<>>
    /\ LET info == Lstat(Head(todo)) IN
       /\ todo' = (IF info.kind = "dir" THEN Children(info.path) ELSE <<>>) \o Tail(todo)
       /\ manifest' = IF Skipped(info) THEN manifest
                      ELSE [manifest EXCEPT !.Files = Slice(<<FileOf(info)>> \o @.elems)]
    /\ UNCHANGED <<fs, Separator, id, version, urlPrefix, prefetchPaths, pc,
                   canonPrefix, walkErr, result, prev>>
    /\ visited' = Append(visited, Head(todo))
    /\ UNCHANGED <<normVars, jsonVars>>

\* one call of the walk function with err = nil, and Walk's move to the next entry
WalkFn ==
    /\ pc = "walking"
    /\ todo # <<>>
    /\ LET info == Lstat(Head(todo)) IN
       /\ todo' = (IF info.kind = "dir" THEN Children(info.path) ELSE <<>>) \o Tail(todo)
       /\ manifest' = IF Skipped(info) THEN manifest
                      ELSE [manifest EXCEPT !.Files = Slice(Append(@.elems, FileOf(info)))]
    /\ UNCHANGED <<fs, Separator, id, version, urlPrefix, prefetchPaths, pc,
                   canonPrefix, walkErr, result, prev>>
    /\ visited' = Append(visited, Head(todo))
    /\ UNCHANGED <<normVars, jsonVars>>

\* Walk hands the walk function an error (lstat or reading the directory failed):
\* the walk function returns it and Walk stops
WalkFnError ==
    /\ pc = "walking"
    /\ todo # <<>>
    /\ walkErr' = ErrTraversal
    /\ pc' = "walked"
    /\ UNCHANGED <<fs, Separator, id, version, urlPrefix, prefetchPaths,
                   canonPrefix, manifest, todo, result, prev>>
    /\ UNCHANGED <<visited, normVars, jsonVars>>

\* hashFile fails on a retained entry (open or read error): Walk stops
WalkFnHashError ==
    /\ pc = "walking"
    /\ todo # <<>>
    /\ ~Skipped(Lstat(Head(todo)))
    /\ walkErr' = ErrHash
    /\ pc' = "walked"
    /\ UNCHANGED <<fs, Separator, id, version, urlPrefix, prefetchPaths,
                   canonPrefix, manifest, todo, result, prev>>
    /\ UNCHANGED <<visited, normVars, jsonVars>>

\* Walk has visited every entry and returns nil
WalkDone ==
    /\ pc = "walking"
    /\ todo = <<>>
    /\ pc' = "walked"
    /\ UNCHANGED <<fs, Separator, id, version, urlPrefix, prefetchPaths,
                   canonPrefix, manifest, todo, walkErr, result, prev>>
    /\ UNCHANGED <<visited, normVars, jsonVars>>

\* Generate after filepath.Walk, modified: the manifest built so far is returned
\* together with the error
GenerateReturnPartial ==
    /\ pc = "walked"
    /\ result' = [manifest |-> manifest, err |-> walkErr]
    /\ pc' = "returned"
    /\ UNCHANGED <<fs, Separator, id, version, urlPrefix, prefetchPaths,
                   canonPrefix, manifest, todo, walkErr, prev>>
    /\ UNCHANGED <<visited, normVars, jsonVars>>

\* Generate after filepath.Walk returned
GenerateReturn ==
    /\ pc = "walked"
    /\ result' = IF walkErr # NoErr THEN Failure(walkErr)
                 ELSE [manifest |-> manifest, err |-> NoErr]
    /\ pc' = "returned"
    /\ UNCHANGED <<fs, Separator, id, version, urlPrefix, prefetchPaths,
                   canonPrefix, manifest, todo, walkErr, prev>>
    /\ UNCHANGED <<visited, normVars, jsonVars>>

\* the caller calls Generate again on the same directory with another urlPrefix
CallAgain ==
    /\ pc = "returned"
    /\ \E u \in UrlPrefixes : urlPrefix' = u
    /\ prev' = [urlPrefix |-> urlPrefix, result |-> result]
    /\ pc' = "call"
    /\ canonPrefix' = <<>>
    /\ manifest' = NilManifest
    /\ todo' = <<>>
    /\ walkErr' = NoErr
    /\ result' = NoResult
    /\ UNCHANGED <<fs, Separator, id, version, prefetchPaths>>
    /\ visited' = <<>>
    /\ UNCHANGED <<normVars, jsonVars>>

GenIdle ==
    /\ fs = [root |-> "missing", entries |-> {}]
    /\ id = <<>> /\ version = <<>> /\ urlPrefix = <<>> /\ prefetchPaths = NilSlice
    /\ pc = "idle"
    /\ canonPrefix = <<>>
    /\ manifest = NilManifest
    /\ todo = <<>>
    /\ walkErr = NoErr
    /\ result = NoResult
    /\ prev = [urlPrefix |-> <<>>, result |-> NoResult]
    /\ visited = <<>>

NormIdle ==
    /\ nIn = NilSlice /\ nOut = NilSlice /\ nOut2 = NilSlice /\ nPc = 0

NotLoaded == [ok |-> FALSE, m |-> NilManifest]

JsonIdle ==
    /\ jM = NilManifest /\ jData = <<>> /\ jLoaded = NotLoaded /\ jPc = "idle"

Init ==
    /\ fs \in FileSystems
    /\ Separator \in {"/", "\\"}
    /\ id \in Ids
    /\ version \in Versions
    /\ urlPrefix \in UrlPrefixes
    /\ prefetchPaths \in PrefetchInputs
    /\ pc = "call"
    /\ canonPrefix = <<>>
    /\ manifest = NilManifest
    /\ todo = <<>>
    /\ walkErr = NoErr
    /\ result = NoResult
    /\ prev = [urlPrefix |-> <<>>, result |-> NoResult]
    /\ visited = <<>>
    /\ NormIdle
    /\ JsonIdle

Next ==
    \/ GenerateStart
    \/ WalkFn
    \/ WalkFnError
    \/ WalkFnHashError
    \/ WalkDone
    \/ GenerateReturn
    \/ CallAgain

Spec == Init /\ [][Next]_vars

-----------------------------------------------------------------------------
(* Marshal: json.MarshalIndent(m, "", "  ") on a Manifest.  The bytes are a      *)
(* sequence of characters; a field name and an indentation unit are one element *)
(* each.                                                                        *)

\* a byte that is no valid UTF-8 (file names and arguments may hold one)
BadByte == "xFF"
\* U+FFFD, the Unicode replacement character
ReplacementChar == "uFFFD"

RECURSIVE Flatten(_)
Flatten(ss) == IF ss = <<>> THEN <<>> ELSE Head(ss) \o Flatten(Tail(ss))

\* how encoding/json writes one character of a string (HTML escaping is on);
\* an invalid byte is written as the replacement character's escape
EscapeChar(c) ==
    CASE c = "\"" -> <<"\\", "\"">>
      [] c = "\\" -> <<"\\", "\\">>
      [] c = "\n" -> <<"\\", "n">>
      [] c = "\t" -> <<"\\", "t">>
      [] c = "<" -> <<"\\", "u", "0", "0", "3", "c">>
      [] c = BadByte -> <<"\\", "u", "f", "f", "f", "d">>
      [] OTHER -> <<c>>

EncodeString(str) ==
    <<"\"">> \o Flatten([i \in 1..Len(str) |-> EscapeChar(str[i])]) \o <<"\"">>

DigitChars == <<"0", "1", "2", "3", "4", "5", "6", "7", "8", "9">>

RECURSIVE EncodeNat(_)
EncodeNat(n) ==
    IF n < 10 THEN <<DigitChars[n + 1]>>
    ELSE EncodeNat(n \div 10) \o <<DigitChars[(n % 10) + 1]>>

EncodeInt(n) == IF n < 0 THEN <<"-">> \o EncodeNat(-n) ELSE EncodeNat(n)

\* a line break and the indentation of depth d
NewLine(d) == <<"\n">> \o [i \in 1..d |-> "  "]

RECURSIVE JoinItems(_, _)
JoinItems(items, sep) ==
    IF items = <<>> THEN <<>>
    ELSE IF Len(items) = 1 THEN items[1]
    ELSE items[1] \o sep \o JoinItems(Tail(items), sep)

\* an array of already encoded items inside depth d; an empty one is "[]"
EncodeArray(items, d) ==
    IF items = <<>> THEN <<"[", "]">>
    ELSE <<"[">> \o NewLine(d + 1) \o JoinItems(items, <<",">> \o NewLine(d + 1))
         \o NewLine(d) \o <<"]">>

\* an object of members <<name, encoded value>> inside depth d
EncodeObject(members, d) ==
    <<"{">> \o NewLine(d + 1)
    \o JoinItems([i \in 1..Len(members) |->
                    <<"\"", members[i][1], "\"", ":", " ">> \o members[i][2]],
                 <<",">> \o NewLine(d + 1))
    \o NewLine(d) \o <<"}">>

Null == <<"n", "u", "l", "l">>

EncodeStrings(sl, d) ==
    IF sl.isNil THEN Null
    ELSE EncodeArray([i \in 1..Len(sl.elems) |-> EncodeString(sl.elems[i])], d)

EncodeFile(f, d) ==
    EncodeObject(<< <<"path", EncodeString(f.Path)>>,
                    <<"url", EncodeString(f.URL)>>,
                    <<"size", EncodeInt(f.Size)>>,
                    <<"sha256", EncodeString(f.SHA256)>>,
                    <<"compression", EncodeString(f.Compression)>> >>, d)

EncodeFiles(sl, d) ==
    IF sl.isNil THEN Null
    ELSE EncodeArray([i \in 1..Len(sl.elems) |-> EncodeFile(sl.elems[i], d + 1)], d)

\* Marshal(m) for a non-nil m
Marshal(m) ==
    EncodeObject(<< <<"artifact_id", EncodeString(m.ArtifactID)>>,
                    <<"version", EncodeString(m.Version)>>,
                    <<"mount_path", EncodeString(m.MountPath)>>,
                    <<"prefetch", EncodeStrings(m.Prefetch, 1)>>,
                    <<"files", EncodeFiles(m.Files, 1)>> >>, 0)

-----------------------------------------------------------------------------
(* Load: json.Unmarshal(data, &m) into a zero Manifest.  The scanner turns the  *)
(* bytes into tokens [k, v]: k is "p" (punctuation), "s" (string), "n"          *)
(* (number), "null" or "err"; the decoder then fills the struct.                *)

Tok(k, v) == [k |-> k, v |-> v]

Blank == {"\n", "  ", " "}
Punctuation == {"{", "}", "[", "]", ":", ","}
IsDigit(c) == \E n \in 1..Len(DigitChars) : DigitChars[n] = c

\* the character a \uXXXX escape stands for, "" when the model has none
Unicode(h) ==
    CASE h = <<"0", "0", "3", "c">> -> "<"
      [] h = <<"f", "f", "f", "d">> -> ReplacementChar
      [] OTHER -> ""

\* the string a quoted body stands for: escapes undone, an invalid byte replaced
RECURSIVE Unquote(_, _)
Unquote(body, acc) ==
    IF body = <<>> THEN [ok |-> TRUE, val |-> acc]
    ELSE IF Head(body) = "\\" THEN
        IF Len(body) < 2 THEN [ok |-> FALSE, val |-> acc]
        ELSE IF body[2] \in {"\"", "\\", "/"}
             THEN Unquote(SubSeq(body, 3, Len(body)), Append(acc, body[2]))
        ELSE IF body[2] = "n" THEN Unquote(SubSeq(body, 3, Len(body)), Append(acc, "\n"))
        ELSE IF body[2] = "t" THEN Unquote(SubSeq(body, 3, Len(body)), Append(acc, "\t"))
        ELSE IF body[2] = "u" /\ Len(body) >= 6 /\ Unicode(SubSeq(body, 3, 6)) # ""
             THEN Unquote(SubSeq(body, 7, Len(body)),
                          Append(acc, Unicode(SubSeq(body, 3, 6))))
        ELSE [ok |-> FALSE, val |-> acc]
    ELSE IF Head(body) \in {"\"", "\n", "\t"} THEN [ok |-> FALSE, val |-> acc]
    ELSE IF Head(body) = BadByte THEN Unquote(Tail(body), Append(acc, ReplacementChar))
    ELSE Unquote(Tail(body), Append(acc, Head(body)))

\* how many backslashes stand directly before d[i]
BackslashRun(d, i) ==
    CHOOSE k \in 0..(i - 1) :
        /\ \A j \in 1..k : d[i - j] = "\\"
        /\ k = i - 1 \/ d[i - 1 - k] # "\\"

\* the quotes that open or close a string: those no backslash escapes
Delimiters(d) == {i \in 1..Len(d) : d[i] = "\"" /\ BackslashRun(d, i) % 2 = 0}

\* the index after the digits that start at d[i]
RECURSIVE EndOfDigits(_, _)
EndOfDigits(d, i) == IF i <= Len(d) /\ IsDigit(d[i]) THEN EndOfDigits(d, i + 1) ELSE i

\* the indices at which a token starts: outside every string, no blank, and not
\* inside a number or a null
TokenStarts(d, delims) ==
    {i \in 1..Len(d) :
        /\ Cardinality({q \in delims : q < i}) % 2 = 0
        /\ d[i] \notin Blank
        /\ ~(IsDigit(d[i]) /\ i > 1 /\ (IsDigit(d[i - 1]) \/ d[i - 1] = "-"))
        /\ ~(\E k \in 1..3 : i - k >= 1 /\ i - k + 3 <= Len(d)
                                /\ SubSeq(d, i - k, i - k + 3) = Null)}

\* the token that starts at d[i]
TokenAt(d, delims, i) ==
    IF d[i] \in Punctuation THEN Tok("p", <<d[i]>>)
    ELSE IF d[i] = "\"" THEN
        LET after == {q \in delims : q > i} IN
        IF after = {} THEN Tok("err", <<>>)
        ELSE LET close == CHOOSE q \in after : \A r \in after : q <= r
                 r == Unquote(SubSeq(d, i + 1, close - 1), <<>>)
             IN IF r.ok THEN Tok("s", r.val) ELSE Tok("err", <<>>)
    ELSE IF IsDigit(d[i]) \/ (d[i] = "-" /\ i + 1 <= Len(d) /\ IsDigit(d[i + 1])) THEN
        Tok("n", SubSeq(d, i, EndOfDigits(d, i + 1) - 1))
    ELSE IF i + 3 <= Len(d) /\ SubSeq(d, i, i + 3) = Null THEN Tok("null", <<>>)
    ELSE Tok("err", <<>>)

\* the tokens that start in d[lo..hi], in order
RECURSIVE TokensIn(_, _, _, _, _)
TokensIn(d, delims, starts, lo, hi) ==
    IF lo > hi THEN <<>>
    ELSE IF lo = hi THEN (IF lo \in starts THEN <<TokenAt(d, delims, lo)>> ELSE <<>>)
    ELSE LET mid == (lo + hi) \div 2
         IN TokensIn(d, delims, starts, lo, mid) \o TokensIn(d, delims, starts, mid + 1, hi)

\* the tokens of d
Scan(d) ==
    LET delims == Delimiters(d)
        starts == TokenStarts(d, delims)
    IN TokensIn(d, delims, starts, 1, Len(d))

DigitValue(c) == (CHOOSE n \in 1..Len(DigitChars) : DigitChars[n] = c) - 1

RECURSIVE DecodeNat(_, _)
DecodeNat(ds, acc) ==
    IF ds = <<>> THEN acc ELSE DecodeNat(Tail(ds), acc * 10 + DigitValue(Head(ds)))

DecodeInt(ds) == IF Head(ds) = "-" THEN 0 - DecodeNat(Tail(ds), 0) ELSE DecodeNat(ds, 0)

IsP(T, i, c) == i <= Len(T) /\ T[i].k = "p" /\ T[i].v = <<c>>
IsKey(T, i, name) == i <= Len(T) /\ T[i].k = "s" /\ T[i].v = <<name>> /\ IsP(T, i + 1, ":")
IsKind(T, i, k) == i <= Len(T) /\ T[i].k = k

Parsed(val, next) == [ok |-> TRUE, val |-> val, next |-> next]
Unparsed == [ok |-> FALSE, val |-> <<>>, next |-> 0]

\* the elements of a string array after "[", up to and including "]"
RECURSIVE DecodeStringItems(_, _, _)
DecodeStringItems(T, i, acc) ==
    IF ~IsKind(T, i, "s") THEN Unparsed
    ELSE IF IsP(T, i + 1, "]") THEN Parsed(Slice(Append(acc, T[i].v)), i + 2)
    ELSE IF IsP(T, i + 1, ",") THEN DecodeStringItems(T, i + 2, Append(acc, T[i].v))
    ELSE Unparsed

\* a []string: null leaves the slice nil, "[]" makes it empty and non-nil
DecodeStrings(T, i) ==
    IF IsKind(T, i, "null") THEN Parsed(NilSlice, i + 1)
    ELSE IF IsP(T, i, "[") /\ IsP(T, i + 1, "]") THEN Parsed(Slice(<<>>), i + 2)
    ELSE IF IsP(T, i, "[") THEN DecodeStringItems(T, i + 1, <<>>)
    ELSE Unparsed

\* a File object: five members of four tokens each after "{"
DecodeFile(T, i) ==
    IF /\ IsP(T, i, "{")
       /\ IsKey(T, i + 1, "path") /\ IsKind(T, i + 3, "s") /\ IsP(T, i + 4, ",")
       /\ IsKey(T, i + 5, "url") /\ IsKind(T, i + 7, "s") /\ IsP(T, i + 8, ",")
       /\ IsKey(T, i + 9, "size") /\ IsKind(T, i + 11, "n") /\ IsP(T, i + 12, ",")
       /\ IsKey(T, i + 13, "sha256") /\ IsKind(T, i + 15, "s") /\ IsP(T, i + 16, ",")
       /\ IsKey(T, i + 17, "compression") /\ IsKind(T, i + 19, "s") /\ IsP(T, i + 20, "}")
    THEN Parsed([Path |-> T[i + 3].v, URL |-> T[i + 7].v, Size |-> DecodeInt(T[i + 11].v),
                 SHA256 |-> T[i + 15].v, Compression |-> T[i + 19].v], i + 21)
    ELSE Unparsed

RECURSIVE DecodeFileItems(_, _, _)
DecodeFileItems(T, i, acc) ==
    LET f == DecodeFile(T, i) IN
    IF ~f.ok THEN Unparsed
    ELSE IF IsP(T, f.next, "]") THEN Parsed(Slice(Append(acc, f.val)), f.next + 1)
    ELSE IF IsP(T, f.next, ",") THEN DecodeFileItems(T, f.next + 1, Append(acc, f.val))
    ELSE Unparsed

DecodeFiles(T, i) ==
    IF IsKind(T, i, "null") THEN Parsed(NilSlice, i + 1)
    ELSE IF IsP(T, i, "[") /\ IsP(T, i + 1, "]") THEN Parsed(Slice(<<>>), i + 2)
    ELSE IF IsP(T, i, "[") THEN DecodeFileItems(T, i + 1, <<>>)
    ELSE Unparsed

\* the Manifest object as Marshal lays it out
DecodeManifest(T) ==
    IF /\ IsP(T, 1, "{")
       /\ IsKey(T, 2, "artifact_id") /\ IsKind(T, 4, "s") /\ IsP(T, 5, ",")
       /\ IsKey(T, 6, "version") /\ IsKind(T, 8, "s") /\ IsP(T, 9, ",")
       /\ IsKey(T, 10, "mount_path") /\ IsKind(T, 12, "s") /\ IsP(T, 13, ",")
       /\ IsKey(T, 14, "prefetch")
    THEN LET pre == DecodeStrings(T, 16) IN
         IF pre.ok /\ IsP(T, pre.next, ",") /\ IsKey(T, pre.next + 1, "files")
         THEN LET fl == DecodeFiles(T, pre.next + 3) IN
              IF fl.ok /\ IsP(T, fl.next, "}") /\ fl.next = Len(T)
              THEN [ok |-> TRUE,
                    m |-> Manifest(T[4].v, T[8].v, T[12].v, pre.val, fl.val)]
              ELSE NotLoaded
         ELSE NotLoaded
    ELSE NotLoaded

\* Load's json.Unmarshal: the Manifest and no error, or a nil Manifest and an error
Unmarshal(data) == DecodeManifest(Scan(data))

-----------------------------------------------------------------------------
(* The round trip Marshal, then Load *)

\* the longest Prefetch and the longest Files of a drawn Manifest
MaxPrefetch == 2
MaxFiles == 2

\* strings with the characters JSON escapes, with an escape look-alike, and with
\* bytes that are not UTF-8
JsonStrings ==
    {<<"a">>, <<"a", "\"", "b">>, <<"\\", "a">>, <<"\\", "n">>, <<"<", "/", "a">>,
     <<"a", "\n", "\t">>, <<ReplacementChar>>, <<"a", BadByte>>}

ValidUTF8(str) == \A i \in 1..Len(str) : str[i] # BadByte

\* the i-th File of a drawn Manifest: paths differ in length, sizes in digits
FileNo(i, a, b) ==
    LET path == a \o [k \in 1..(i - 1) |-> "x"]
    IN File(path, SchemeHTTPS \o b \o <<"/">> \o path, 105 * (i - 1),
            <<"s", "h", "a", "-">> \o b)

StringsOf(n, a, b) == [i \in 1..n |-> IF i % 2 = 1 THEN a ELSE b]

ManifestsOf(a, b) ==
    {Manifest(a, b, MountPathDefault, pre, fl) :
        pre \in {NilSlice} \cup {Slice(StringsOf(n, b, a)) : n \in 0..MaxPrefetch},
        fl \in {NilSlice} \cup {Slice([i \in 1..n |-> FileNo(i, a, b)]) : n \in 0..MaxFiles}}

Manifests == UNION {ManifestsOf(a, b) : a \in JsonStrings, b \in JsonStrings}

InitJson ==
    /\ GenIdle
    /\ NormIdle
    /\ Separator = "/"
    /\ jM \in Manifests
    /\ jData = <<>>
    /\ jLoaded = NotLoaded
    /\ jPc = "start"

\* data, _ := Marshal(m)
MarshalManifest ==
    /\ jPc = "start"
    /\ jData' = Marshal(jM)
    /\ jPc' = "marshalled"
    /\ UNCHANGED <<jM, jLoaded, genVars, normVars>>

\* Load of a file holding data
LoadManifest ==
    /\ jPc = "marshalled"
    /\ jLoaded' = Unmarshal(jData)
    /\ jPc' = "loaded"
    /\ UNCHANGED <<jM, jData, genVars, normVars>>

NextJson ==
    \/ MarshalManifest
    \/ LoadManifest

SpecJson == InitJson /\ [][NextJson]_vars

\* every string of the Manifest m is valid UTF-8
ManifestIsUTF8(m) ==
    /\ ValidUTF8(m.ArtifactID) /\ ValidUTF8(m.Version) /\ ValidUTF8(m.MountPath)
    /\ \A i \in 1..Len(m.Prefetch.elems) : ValidUTF8(m.Prefetch.elems[i])
    /\ \A i \in 1..Len(m.Files.elems) :
          /\ ValidUTF8(m.Files.elems[i].Path) /\ ValidUTF8(m.Files.elems[i].URL)
          /\ ValidUTF8(m.Files.elems[i].SHA256) /\ ValidUTF8(m.Files.elems[i].Compression)

\* C8: for every valid Manifest, decoding what Marshal produced succeeds and
\* yields an equal Manifest (all fields, Prefetch and Files in order).
C8_RoundTrip ==
    jPc = "loaded" => jLoaded.ok /\ jLoaded.m = jM

\* the round trip does yield an equal Manifest when every string of the Manifest
\* is valid UTF-8
C8_RoundTripUTF8 ==
    (jPc = "loaded" /\ ManifestIsUTF8(jM)) => jLoaded.ok /\ jLoaded.m = jM

\* a Manifest with escaped characters, a Prefetch list and two Files came back
C8_Witness ==
    /\ jPc = "loaded"
    /\ ManifestIsUTF8(jM)
    /\ jM.ArtifactID = <<"a", "\"", "b">> /\ jM.Version = <<"\\", "n">>
    /\ Len(jM.Prefetch.elems) = 2 /\ Len(jM.Files.elems) = 2
    /\ jLoaded.ok /\ jLoaded.m = jM

-----------------------------------------------------------------------------
(* normalizePrefetchPaths on its own *)

\* the longest input slice drawn
MaxPaths == 2

\* raw prefetch hints: empty, blank, padded on either side, with inner white
\* space, with either separator character
RawStrings ==
    {<<>>, <<" ">>, <<"\t", " ">>, <<"a">>, <<" ", "a", "\t">>, <<" ", "\t", "a", " ">>,
     <<"a", " ", "b">>, <<"a", "\\", "b">>, <<" ", "a", "/", "b">>}

RECURSIVE SeqsUpTo(_, _)
SeqsUpTo(S, n) ==
    IF n = 0 THEN {<<>>}
    ELSE LET shorter == SeqsUpTo(S, n - 1)
         IN shorter \cup {Append(q, x) : q \in {r \in shorter : Len(r) = n - 1}, x \in S}

NormInputs == {NilSlice} \cup {Slice(q) : q \in SeqsUpTo(RawStrings, MaxPaths)}

InitNorm ==
    /\ GenIdle
    /\ JsonIdle
    /\ Separator \in {"/", "\\"}
    /\ nIn \in NormInputs
    /\ nOut = NilSlice
    /\ nOut2 = NilSlice
    /\ nPc = 0

\* normalizePrefetchPaths(paths)
NormalizeOnce ==
    /\ nPc = 0
    /\ nOut' = normalizePrefetchPaths(nIn)
    /\ nPc' = 1
    /\ UNCHANGED <<nIn, nOut2, genVars, jsonVars>>

\* normalizePrefetchPaths applied to its own result
NormalizeAgain ==
    /\ nPc = 1
    /\ nOut2' = normalizePrefetchPaths(nOut)
    /\ nPc' = 2
    /\ UNCHANGED <<nIn, nOut, genVars, jsonVars>>

NextNorm ==
    \/ NormalizeOnce
    \/ NormalizeAgain

SpecNorm == InitNorm /\ [][NextNorm]_vars

\* C9: normalizePrefetchPaths is idempotent: applied to its own result it returns
\* that result.
C9_Idempotent == nPc = 2 => nOut2 = nOut

\* an input with a blank element and a padded element was normalized twice
C9_Witness ==
    /\ nPc = 2
    /\ \E i \in 1..Len(nIn.elems) : nIn.elems[i] # <<>> /\ TrimSpace(nIn.elems[i]) = <<>>
    /\ \E i \in 1..Len(nIn.elems) :
          TrimSpace(nIn.elems[i]) # <<>> /\ TrimSpace(nIn.elems[i]) # nIn.elems[i]
    /\ nOut.elems # nIn.elems

\* x has a character that is not white space
NonBlank(x) == \E k \in 1..Len(x) : x[k] \notin WhiteSpace

\* y is x without its leading and trailing white space, each separator turned
\* into a forward slash
IsNormalFormOf(y, x) ==
    \E a \in 1..Len(x) : \E b \in a..Len(x) :
        /\ \A k \in 1..(a - 1) : x[k] \in WhiteSpace
        /\ \A k \in (b + 1)..Len(x) : x[k] \in WhiteSpace
        /\ x[a] \notin WhiteSpace /\ x[b] \notin WhiteSpace
        /\ Len(y) = b - a + 1
        /\ \A k \in 1..Len(y) :
              y[k] = IF x[a + k - 1] = Separator THEN "/" ELSE x[a + k - 1]

KeptIndices == {i \in 1..Len(nIn.elems) : NonBlank(nIn.elems[i])}

\* C10: the result is never nil (also for a nil or empty input) and holds, in the
\* order of the input, exactly the trimmed forward-slash form of each element
\* that is not blank.
C10_TrimmedSlashedNonEmpty ==
    nPc >= 1 =>
        /\ ~nOut.isNil
        /\ Len(nOut.elems) = Cardinality(KeptIndices)
        /\ \A i \in KeptIndices :
              IsNormalFormOf(nOut.elems[Cardinality({k \in KeptIndices : k <= i})],
                             nIn.elems[i])

\* a blank element was dropped and the padded element after it was kept, trimmed
C10_Witness ==
    /\ nPc >= 1
    /\ Len(nIn.elems) = 2
    /\ ~NonBlank(nIn.elems[1]) /\ nIn.elems[1] # <<>>
    /\ nIn.elems[2] = <<" ", "a", "\t">>
    /\ nOut = Slice(<< <<"a">> >>)

-----------------------------------------------------------------------------
(* Properties of Generate *)

\* Generate returned a Manifest and no error
Succeeded == pc = "returned" /\ result.err = NoErr

ReturnedFiles == result.manifest.Files.elems

\* some "/"-separated segment of the path p starts with "."
HasHiddenSegment(p) ==
    \/ p # <<>> /\ p[1] = "."
    \/ \E i \in 1..(Len(p) - 1) : p[i] = "/" /\ p[i + 1] = "."

\* C1: in every Manifest Generate returns, no File.Path has a path segment that
\* starts with "." (hidden files and the whole subtree of a hidden directory
\* are excluded).
C1_NoHiddenSegment ==
    Succeeded => \A i \in 1..Len(ReturnedFiles) : ~HasHiddenSegment(ReturnedFiles[i].Path)

\* the regular files under dir that are neither hidden nor inside a hidden
\* directory (an entry below a symbolic link does not exist for the walk)
RegularVisible ==
    {e \in fs.entries : /\ e.kind = "file"
                        /\ \A k \in 1..Len(e.path) : e.path[k][1] # "."}

\* C2: when Generate succeeds, Files has exactly one entry per regular, non-hidden,
\* non-symlink file under dir, and no entry for anything else.
C2_OneFilePerRegularFile ==
    Succeeded =>
        /\ Len(ReturnedFiles) = Cardinality(RegularVisible)
        /\ \A i \in 1..Len(ReturnedFiles) :
              \E e \in RegularVisible : ReturnedFiles[i].Path = JoinSegs(e.path, "/")

\* the caller's urlPrefix with its trailing slash stripped
StripTrailingSlash(u) ==
    IF u # <<>> /\ u[Len(u)] = "/" THEN SubSeq(u, 1, Len(u) - 1) ELSE u

URLsOf(files) == [i \in 1..Len(files) |-> files[i].URL]

AfterScheme(u) ==
    IF HasPrefix(u, SchemeHTTPS) THEN SubSeq(u, Len(SchemeHTTPS) + 1, Len(u))
    ELSE IF HasPrefix(u, SchemeHTTP) THEN SubSeq(u, Len(SchemeHTTP) + 1, Len(u))
    ELSE u

HasDoubleSlash(u) == \E i \in 1..(Len(u) - 1) : u[i] = "/" /\ u[i + 1] = "/"

\* C4: for every accepted urlPrefix, no File's URL has a double slash other than
\* the scheme separator's (no trailing slash of urlPrefix survives before Path).
C4_NoDoubleSlash ==
    Succeeded =>
        \A i \in 1..Len(ReturnedFiles) : ~HasDoubleSlash(AfterScheme(ReturnedFiles[i].URL))

BadUrlPrefix == ~HasPrefix(urlPrefix, SchemeHTTP) /\ ~HasPrefix(urlPrefix, SchemeHTTPS)
MissingIdOrVersion == id = <<>> \/ version = <<>>

\* C5: Generate reports the first violation only, in the order (1) empty id or
\* version: ValidationError, (2) root missing or not a directory:
\* FilesystemError, (3) bad urlPrefix: ValidationError; the walk starts only when
\* all three checks pass.
C5_ValidationOrder ==
    /\ pc = "returned" =>
          /\ MissingIdOrVersion =>
                result.err = ErrRequired /\ ErrorKind(result.err) = "ValidationError"
          /\ (~MissingIdOrVersion /\ fs.root # "dir") =>
                ErrorKind(result.err) = "FilesystemError"
          /\ (~MissingIdOrVersion /\ fs.root = "dir" /\ BadUrlPrefix) =>
                result.err = ErrUrlPrefix /\ ErrorKind(result.err) = "ValidationError"
    /\ pc \in {"walking", "walked"} =>
          ~MissingIdOrVersion /\ fs.root = "dir" /\ ~BadUrlPrefix

\* all three checks fail at once and the first one is the one reported
C5_Witness ==
    /\ pc = "returned"
    /\ id = <<>> /\ fs.root = "missing" /\ BadUrlPrefix
    /\ result.err = ErrRequired

\* C6: an empty id, an empty version or a bad urlPrefix always gives a
\* ValidationError and no Manifest, whatever the other arguments are.
C6_AlwaysValidationError ==
    (pc = "returned" /\ (MissingIdOrVersion \/ BadUrlPrefix)) =>
        ErrorKind(result.err) = "ValidationError" /\ result.manifest.isNil

\* C6, amended: an empty id or version always gives a ValidationError; a bad
\* urlPrefix gives a ValidationError when id and version are given and the root
\* is a directory, and a FilesystemError when the root is missing or not a
\* directory; in every one of these cases no Manifest is returned.
C6_ValidationErrorUnlessRootFails ==
    (pc = "returned" /\ (MissingIdOrVersion \/ BadUrlPrefix)) =>
        /\ result.manifest.isNil
        /\ ErrorKind(result.err) =
              IF ~MissingIdOrVersion /\ fs.root # "dir"
              THEN "FilesystemError" ELSE "ValidationError"

\* a bad urlPrefix with everything else in order is reported as a ValidationError
C6_Witness ==
    /\ pc = "returned"
    /\ ~MissingIdOrVersion /\ fs.root = "dir" /\ BadUrlPrefix
    /\ ErrorKind(result.err) = "ValidationError"
    /\ result.manifest.isNil

\* the entries the walk visits: those with no symbolic link or non-directory above
\* them (every entry of the model's trees)
Retained == {e \in fs.entries : ~Skipped(e)}

\* C7: generation is all-or-nothing. Once the walk function has returned an error
\* the walk visits nothing more, and Generate returns that error and a nil
\* Manifest; a Manifest is returned only after every entry was visited without
\* error, and then it holds every retained file.
C7_AllOrNothing ==
    /\ walkErr # NoErr => pc \in {"walked", "returned"}
    /\ (pc = "returned" /\ walkErr # NoErr) =>
          result.manifest = NilManifest /\ result.err = walkErr
    /\ (pc = "returned" /\ ~result.manifest.isNil) =>
          /\ result.err = NoErr /\ walkErr = NoErr /\ todo = <<>>
          /\ Len(ReturnedFiles) = Cardinality(Retained)

\* hashing failed after an earlier file had been appended, and nothing was returned
C7_Witness ==
    /\ pc = "returned"
    /\ walkErr = ErrHash
    /\ manifest.Files.elems # <<>>
    /\ result.manifest.isNil
    /\ result.err = ErrHash

\* the visited entries the walk function's filters let through, in visiting order
RetainedVisited == SelectSeq(visited, LAMBDA p : ~Skipped(Lstat(p)))

\* the path a comes before the path b in a walk that reads each directory in
\* name order and visits a directory before its entries
RECURSIVE PathBefore(_, _)
PathBefore(a, b) ==
    IF a = <<>> THEN b # <<>>
    ELSE IF b = <<>> THEN FALSE
    ELSE IF Head(a) = Head(b) THEN PathBefore(Tail(a), Tail(b))
    ELSE NameLess(Head(a), Head(b))

\* files holds one File per retained visited entry, in visiting order, under
\* that entry's "/"-joined relative path, and no Path twice
InWalkOrder(files) ==
    /\ Len(files) = Len(RetainedVisited)
    /\ \A i \in 1..Len(files) : files[i].Path = JoinSegs(RetainedVisited[i], "/")
    /\ \A i \in 1..Len(files) : \A j \in 1..Len(files) :
          i < j => files[i].Path # files[j].Path

\* C11: after every step of the walk and in every returned Manifest, Files holds
\* the retained files in the order the walk visited them (each one appended at
\* the end, none inserted, removed or reordered), the walk visits in directory
\* order, and no two Files share a Path.
C11_WalkOrderUniquePaths ==
    /\ \A i \in 1..Len(visited) : \A j \in 1..Len(visited) :
          i < j => PathBefore(visited[i], visited[j])
    /\ ~manifest.isNil => InWalkOrder(manifest.Files.elems)
    /\ Succeeded => InWalkOrder(ReturnedFiles)

\* a Manifest with three Files or more was returned, one of them from inside a
\* directory, after the walk had also visited entries it skipped
C11_Witness ==
    /\ Succeeded
    /\ Len(ReturnedFiles) >= 3
    /\ Len(visited) > Len(ReturnedFiles) + 1
    /\ \E i \in 1..Len(RetainedVisited) : Len(RetainedVisited[i]) = 2

=============================================================================
